---- MODULE Spec2Model ----
(***************************************************************************)
(* Model of templates/static/js/events.js: the four DOM helpers            *)
(* toggleSelectAll, toggleSection, filterTable and collectBulkIds.         *)
(*                                                                         *)
(* The DOM is the state.  A JavaScript string is a sequence of             *)
(* one-character strings, so that toLowerCase, includes and JSON.stringify *)
(* are modelled by what they do to the characters.  A call that throws     *)
(* (null or undefined dereference) keeps every mutation made before the    *)
(* throw and records where it threw.                                       *)
(***************************************************************************)
EXTENDS Integers, Sequences, FiniteSets, TLC

\* Largest number of body rows of the table.
MaxRows == 2

----------------------------------------------------------------------------
(* The document *)

TableId == "tbl"
SectionId == "sec"
IconId == "ico"
HiddenInputId == "hid"
Null == "null"

VARIABLES
    elements,        \* ids of the elements the document holds (never changes)
    rows,            \* the table's body rows, in document order; each row holds
                     \*   one input.event-checkbox (value, checked), its inline
                     \*   display, and the text of its cells (children)
    filters,         \* values of the table's .filter-input controls, in order
    hidden,          \* value of the hidden input
    sectionDisplay,  \* section.style.display ("" when never set)
    iconOpen,        \* whether the icon's classList holds "open"
    last,            \* history: the last call, its source checkbox, where it threw
    seqPos,          \* history: progress through the call sequence
                     \*   filterTable, toggleSelectAll(checked), collectBulkIds
    secHist,         \* history: section/icon before each of the last (at most 2)
                     \*   toggleSection calls made in succession
    toggled,         \* history: some toggleSection call has completed
    repeated         \* history: the last call repeated the call before it
                     \*   (same operation, same source checkbox)

dom == <<rows, filters, hidden, sectionDisplay, iconOpen>>
vars == <<elements, rows, filters, hidden, sectionDisplay, iconOpen,
          last, seqPos, secHist, toggled, repeated>>

\* document.getElementById
GetElementById(id) == IF id \in elements THEN id ELSE Null

----------------------------------------------------------------------------
(* Strings *)

ToLowerChar(c) ==
    CASE c = "A" -> "a"
      [] c = "B" -> "b"
      [] c = "L" -> "l"
      [] OTHER -> c

\* String.prototype.toLowerCase
ToLowerCase(s) == [i \in 1..Len(s) |-> ToLowerChar(s[i])]

\* String.prototype.includes
Includes(s, sub) ==
    \E i \in 1..(Len(s) - Len(sub) + 1) : SubSeq(s, i, i + Len(sub) - 1) = sub

RECURSIVE Escape(_)
\* JSON.stringify's quoting of the characters of one string
Escape(s) ==
    IF s = <<>> THEN <<>>
    ELSE (IF Head(s) = "\"" \/ Head(s) = "\\" THEN <<"\\", Head(s)>> ELSE <<Head(s)>>)
         \o Escape(Tail(s))

JSONString(s) == <<"\"">> \o Escape(s) \o <<"\"">>

RECURSIVE JoinStrings(_)
JoinStrings(ids) ==
    IF ids = <<>> THEN <<>>
    ELSE IF Len(ids) = 1 THEN JSONString(ids[1])
    ELSE JSONString(ids[1]) \o <<",">> \o JoinStrings(Tail(ids))

\* JSON.stringify of an array of strings
JSONStringify(ids) == <<"[">> \o JoinStrings(ids) \o <<"]">>

----------------------------------------------------------------------------
(* toggleSelectAll *)

SetAllInverted(rs, checked) ==
    [i \in 1..Len(rs) |-> [rs[i] EXCEPT !.checked = ~rs[i].checked]]

SetFirstChecked(rs, checked) ==
    [i \in 1..Len(rs) |-> IF i = 1 THEN [rs[i] EXCEPT !.checked = checked] ELSE rs[i]]

SetVisibleChecked(rs, checked) ==
    [i \in 1..Len(rs) |->
        IF rs[i].display = "none" THEN rs[i] ELSE [rs[i] EXCEPT !.checked = checked]]

\* rows.forEach(cb => cb.checked = checked)
SetAllChecked(rs, checked) ==
    [i \in 1..Len(rs) |-> [rs[i] EXCEPT !.checked = checked]]

----------------------------------------------------------------------------
(* toggleSection *)

ToggledDisplayUnsetHidden(display) ==
    IF display = "block" THEN "none" ELSE "block"

\* the display written by toggleSection
ToggledDisplay(display) == IF display = "none" THEN "block" ELSE "none"

ToggledOpenFlip(display, open) == ~open

ToggledOpenSwapped(display, open) == display /= "none"

\* whether the icon holds "open" after classList.add / classList.remove
ToggledOpen(display, open) == display = "none"

----------------------------------------------------------------------------
(* filterTable *)

RowVisibleCaseSensitive(row, fs) ==
    \A idx \in 1..Len(fs) :
        fs[idx] = <<>> \/ Includes(row.children[idx + 1], fs[idx])

\* the value of `visible` after filters.forEach on a row that does not throw
RowVisible(row, fs) ==
    \A idx \in 1..Len(fs) :
        LET filterValue == ToLowerCase(fs[idx])
        IN  filterValue = <<>>
            \/ Includes(ToLowerCase(row.children[idx + 1]), filterValue)

\* filters.forEach throws on the row: a non-empty filter whose cell,
\* row.children[idx + 1], is undefined
RowThrows(row, fs) ==
    \E idx \in 1..Len(fs) :
        ToLowerCase(fs[idx]) /= <<>> /\ idx + 1 > Len(row.children)

\* index of the first row on which rows.forEach throws; Len(rs) + 1 if none
FirstThrow(rs, fs) ==
    IF \E i \in 1..Len(rs) : RowThrows(rs[i], fs)
    THEN CHOOSE i \in 1..Len(rs) :
            /\ RowThrows(rs[i], fs)
            /\ \A j \in 1..(i - 1) : ~RowThrows(rs[j], fs)
    ELSE Len(rs) + 1

RowDisplayFlip(row, visible) ==
    IF visible THEN "" ELSE IF row.display = "none" THEN "" ELSE "none"

\* row.style.display = visible ? "" : "none"
RowDisplay(row, visible) == IF visible THEN "" ELSE "none"

FilteredRowsAtomic(rs, fs) ==
    IF FirstThrow(rs, fs) <= Len(rs) THEN rs
    ELSE [i \in 1..Len(rs) |->
            [rs[i] EXCEPT !.display = RowDisplay(rs[i], RowVisible(rs[i], fs))]]

\* the rows after rows.forEach: every row before the first throw is assigned
FilteredRows(rs, fs) ==
    [i \in 1..Len(rs) |->
        IF i < FirstThrow(rs, fs)
        THEN [rs[i] EXCEPT !.display = RowDisplay(rs[i], RowVisible(rs[i], fs))]
        ELSE rs[i]]

----------------------------------------------------------------------------
(* collectBulkIds *)

VisibleCheckedValues(rs) ==
    LET sel == SelectSeq(rs, LAMBDA r : r.checked /\ r.display /= "none")
    IN  [i \in 1..Len(sel) |-> sel[i].value]

\* [...querySelectorAll("input.event-checkbox:checked")].map(cb => cb.value)
CheckedValues(rs) ==
    LET sel == SelectSeq(rs, LAMBDA r : r.checked)
    IN  [i \in 1..Len(sel) |-> sel[i].value]

----------------------------------------------------------------------------
(* History *)

Call(op, checked, fault) == [op |-> op, checked |-> checked, fault |-> fault]

\* position in filterTable, toggleSelectAll(checked), collectBulkIds after a call
NextSeqPos(call) ==
    IF call.fault /= "none" THEN 0
    ELSE IF call.op = "filterTable" THEN 1
    ELSE IF call.op = "toggleSelectAll" /\ call.checked /\ seqPos = 1 THEN 2
    ELSE IF call.op = "collectBulkIds" /\ seqPos = 2 THEN 3
    ELSE 0

Snapshot == [display |-> sectionDisplay, open |-> iconOpen]

LastTwo(s) == IF Len(s) > 2 THEN Tail(s) ELSE s

SameCall(a, b) == a.op = b.op /\ a.checked = b.checked

\* a call other than a completed toggleSection
Record(call) ==
    /\ last' = call
    /\ repeated' = SameCall(last, call)
    /\ seqPos' = NextSeqPos(call)
    /\ secHist' = <<>>
    /\ toggled' = toggled

----------------------------------------------------------------------------
(* Initial states: the page as loaded, at any moment of a session *)

CellTextA == <<"A", "l">>
CellTextB == <<"b">>
CheckboxCell == <<>>

\* the cells of a body row: the checkbox cell, then the data cells; the last
\* kind is one cell short of two filters
RowCells ==
    { <<CheckboxCell, CellTextA, CellTextB>>,
      <<CheckboxCell, CellTextB, CellTextA>>,
      <<CheckboxCell, CellTextA>> }

\* a row's cells and its inline display: "" as loaded, "none" when an earlier
\* filter run (with other filter values) hid it
RowKinds == { [children |-> c, display |-> d] : c \in RowCells, d \in {"", "none"} }

\* the value attribute of the i-th row's checkbox
CheckboxValue(i) ==
    CASE i % 3 = 1 -> <<"7">>
      [] i % 3 = 2 -> <<"\"", "3">>
      [] OTHER -> <<"9", "\\">>

MakeRow(i, kind, checked) ==
    [value |-> CheckboxValue(i), checked |-> checked,
     display |-> kind.display, children |-> kind.children]

Tables ==
    UNION { { [i \in 1..n |-> MakeRow(i, k[i], c[i])] :
                k \in [1..n -> RowKinds], c \in [1..n -> BOOLEAN] } : n \in 0..MaxRows }

FilterLists ==
    { <<>>,
      << <<>>, <<>> >>,
      << <<"a", "L">>, <<>> >>,
      << <<>>, <<"B">> >>,
      << <<"a", "L">>, <<"B">> >>,
      << <<"B">>, <<"B">> >>,
      << <<"l">>, <<"a", "l", "x">> >> }

Displays == {"", "none", "block", "inline"}

DefaultRows ==
    << MakeRow(1, [children |-> <<CheckboxCell, CellTextA, CellTextB>>, display |-> ""], TRUE),
       MakeRow(2, [children |-> <<CheckboxCell, CellTextB, CellTextA>>, display |-> ""], FALSE) >>

DefaultFilters == << <<"a", "L">>, <<>> >>

\* a page with a table (any rows, any filter values) and no section
InitTablePage ==
    /\ elements = {TableId, HiddenInputId}
    /\ rows \in Tables
    /\ filters \in FilterLists
    /\ sectionDisplay = ""
    /\ iconOpen = FALSE

\* a page with a section (any inline display, any icon class); its table is
\* fixed, and the icon, the hidden input or the table may be missing
InitSectionPage ==
    /\ elements \in { {SectionId, IconId, TableId, HiddenInputId},
                      {SectionId, TableId, HiddenInputId},
                      {SectionId, IconId, TableId},
                      {SectionId, IconId} }
    /\ rows = IF TableId \in elements THEN DefaultRows ELSE <<>>
    /\ filters = IF TableId \in elements THEN DefaultFilters ELSE <<>>
    /\ sectionDisplay \in Displays
    /\ iconOpen \in (IF IconId \in elements THEN BOOLEAN ELSE {FALSE})

Init ==
    /\ InitTablePage \/ InitSectionPage
    /\ hidden = <<>>
    /\ last = Call("none", FALSE, "none")
    /\ seqPos = 0
    /\ secHist = <<>>
    /\ toggled = FALSE
    /\ repeated = FALSE

----------------------------------------------------------------------------
(* The four operations *)

ToggleSelectAll(checkbox, tableId) ==
    LET checked == checkbox
        table == GetElementById(tableId)
    IN  IF table = Null
        THEN /\ Record(Call("toggleSelectAll", checked, "table"))
             /\ UNCHANGED <<elements, dom>>
        ELSE /\ rows' = SetAllChecked(rows, checked)
             /\ Record(Call("toggleSelectAll", checked, "none"))
             /\ UNCHANGED <<elements, filters, hidden, sectionDisplay, iconOpen>>

ToggleSection(sectionId, iconId) ==
    LET section == GetElementById(sectionId)
        icon == GetElementById(iconId)
    IN  IF section = Null
        THEN /\ Record(Call("toggleSection", FALSE, "section"))
             /\ UNCHANGED <<elements, dom>>
        ELSE IF icon = Null
        THEN /\ sectionDisplay' = ToggledDisplay(sectionDisplay)
             /\ Record(Call("toggleSection", FALSE, "icon"))
             /\ UNCHANGED <<elements, rows, filters, hidden, iconOpen>>
        ELSE /\ sectionDisplay' = ToggledDisplay(sectionDisplay)
             /\ iconOpen' = ToggledOpen(sectionDisplay, iconOpen)
             /\ last' = Call("toggleSection", FALSE, "none")
             /\ repeated' = SameCall(last, Call("toggleSection", FALSE, "none"))
             /\ seqPos' = 0
             /\ secHist' = LastTwo(Append(secHist, Snapshot))
             /\ toggled' = TRUE
             /\ UNCHANGED <<elements, rows, filters, hidden>>

FilterTable(tableId) ==
    LET table == GetElementById(tableId)
    IN  IF table = Null
        THEN /\ Record(Call("filterTable", FALSE, "table"))
             /\ UNCHANGED <<elements, dom>>
        ELSE /\ rows' = FilteredRows(rows, filters)
             /\ Record(Call("filterTable", FALSE,
                            IF FirstThrow(rows, filters) <= Len(rows)
                            THEN "cell" ELSE "none"))
             /\ UNCHANGED <<elements, filters, hidden, sectionDisplay, iconOpen>>

CollectBulkIds(tableId, hiddenInputId) ==
    LET table == GetElementById(tableId)
    IN  IF table = Null
        THEN /\ Record(Call("collectBulkIds", FALSE, "table"))
             /\ UNCHANGED <<elements, dom>>
        ELSE IF GetElementById(hiddenInputId) = Null
        THEN /\ Record(Call("collectBulkIds", FALSE, "hidden"))
             /\ UNCHANGED <<elements, dom>>
        ELSE /\ hidden' = JSONStringify(CheckedValues(rows))
             /\ Record(Call("collectBulkIds", FALSE, "none"))
             /\ UNCHANGED <<elements, rows, filters, sectionDisplay, iconOpen>>

Next ==
    \/ \E checkbox \in BOOLEAN : ToggleSelectAll(checkbox, TableId)
    \/ ToggleSection(SectionId, IconId)
    \/ FilterTable(TableId)
    \/ CollectBulkIds(TableId, HiddenInputId)

Spec == Init /\ [][Next]_vars

----------------------------------------------------------------------------
(* Properties *)

Completed(op) == last.op = op /\ last.fault = "none"

BadJSON == << <<"#", "b", "a", "d">> >>

RECURSIVE ParseFrom(_, _, _, _, _)
\* reads the elements of a JSON array of strings from position i of text t
ParseFrom(t, i, inString, cur, out) ==
    IF i > Len(t) THEN BadJSON
    ELSE IF inString
    THEN IF t[i] = "\\"
         THEN IF i + 1 <= Len(t)
              THEN ParseFrom(t, i + 2, TRUE, Append(cur, t[i + 1]), out)
              ELSE BadJSON
         ELSE IF t[i] = "\""
         THEN ParseFrom(t, i + 1, FALSE, <<>>, Append(out, cur))
         ELSE ParseFrom(t, i + 1, TRUE, Append(cur, t[i]), out)
    ELSE IF t[i] = "\"" THEN ParseFrom(t, i + 1, TRUE, <<>>, out)
    ELSE IF t[i] = "," /\ out /= <<>> THEN ParseFrom(t, i + 1, FALSE, <<>>, out)
    ELSE IF t[i] = "]" /\ i = Len(t) THEN out
    ELSE BadJSON

\* the array of strings a JSON text encodes
JSONParse(t) ==
    IF Len(t) >= 2 /\ t[1] = "[" THEN ParseFrom(t, 2, FALSE, <<>>, <<>>) ELSE BadJSON

\* the indices of the checked rows, and the values at them in document order
CheckedIndices == {i \in 1..Len(rows) : rows[i].checked}

IsValuesAt(ids, idxs) ==
    /\ Len(ids) = Cardinality(idxs)
    /\ \A i \in idxs :
         ids[Cardinality({j \in idxs : j <= i})] = rows[i].value

\* the row's cells match every non-empty filter, case-insensitively
Matches(r) ==
    \A i \in 1..Len(filters) :
        filters[i] /= <<>> =>
            /\ i + 1 <= Len(rows[r].children)
            /\ \E a \in 1..(Len(rows[r].children[i + 1]) + 1) :
               \E b \in 0..Len(rows[r].children[i + 1]) :
                  SubSeq(ToLowerCase(rows[r].children[i + 1]), a, b)
                     = ToLowerCase(filters[i])

\* a non-empty filter has no cell in the row
Malformed(r) ==
    \E i \in 1..Len(filters) : filters[i] /= <<>> /\ Len(rows[r].children) < i + 1

Visible(display) == display /= "none"

\* C1: after toggleSelectAll(source, T) on a table that resolves, every
\* event-checkbox of T has checked equal to source.checked, and the call does
\* not fault, also when the table holds no such checkbox.
C1_SelectAllSetsEvery ==
    last.op = "toggleSelectAll" /\ TableId \in elements =>
        /\ last.fault = "none"
        /\ \A i \in 1..Len(rows) : rows[i].checked = last.checked

C1_Witness ==
    /\ Completed("toggleSelectAll")
    /\ last.checked
    /\ Len(rows) = 2
    /\ rows[2].display = "none"

\* C2: after a completed filterTable(T), a body row has display "" if and only
\* if, for every non-empty filter at position i, the lower-cased text of the
\* row's cell i+1 contains the lower-cased filter value; otherwise "none".
C2_FilterShowsExactlyMatches ==
    Completed("filterTable") =>
        \A r \in 1..Len(rows) :
            /\ rows[r].display \in {"", "none"}
            /\ rows[r].display = "" <=> Matches(r)

C2_Witness ==
    /\ Completed("filterTable")
    /\ Len(rows) = 2
    /\ rows[1].display = "none"
    /\ rows[2].display = ""
    /\ \E i \in 1..Len(filters) : filters[i] /= <<>>
    /\ \E i \in 1..Len(filters) : filters[i] = <<>>

\* C3: after a completed collectBulkIds(T, H), the hidden input's value is the
\* JSON array of exactly the values of the checked checkboxes, in document
\* order, whatever the rows' display; with none checked it is "[]".
C3_CollectsCheckedInOrder ==
    Completed("collectBulkIds") =>
        /\ IsValuesAt(JSONParse(hidden), CheckedIndices)
        /\ CheckedIndices = {} => hidden = <<"[", "]">>

C3_Witness ==
    /\ Completed("collectBulkIds")
    /\ Len(rows) = 2
    /\ ~rows[1].checked
    /\ rows[2].checked
    /\ rows[2].display = "none"

\* C4 (as claimed): two toggleSection calls in succession return the section
\* to its original visible/hidden state and the icon's "open" class to its
\* original presence or absence.
C4_TwoTogglesRestoreAll ==
    Len(secHist) = 2 =>
        /\ Visible(sectionDisplay) = Visible(secHist[1].display)
        /\ iconOpen = secHist[1].open

\* C4 (amended): two toggleSection calls in succession return the section to
\* its original visible/hidden state and leave the icon "open" exactly when
\* the section is visible; the icon's class is the original one exactly when
\* it originally agreed with the section's visibility.
C4_TwoTogglesRestoreVisibility ==
    Len(secHist) = 2 =>
        /\ Visible(sectionDisplay) = Visible(secHist[1].display)
        /\ iconOpen = Visible(sectionDisplay)
        /\ iconOpen = secHist[1].open
             <=> secHist[1].open = Visible(secHist[1].display)

C4_Witness ==
    /\ Len(secHist) = 2
    /\ secHist[1].display = ""
    /\ ~secHist[1].open
    /\ sectionDisplay = "block"
    /\ iconOpen

\* C5: running filterTable a second time, with the filter values and the cell
\* text unchanged, leaves every row's display as the first run left it.
C5_FilterIdempotent ==
    [][last.op = "filterTable" /\ last'.op = "filterTable" => rows' = rows]_vars

C5_Witness ==
    /\ repeated
    /\ Completed("filterTable")
    /\ \E r \in 1..Len(rows) : rows[r].display = "none"
    /\ \E r \in 1..Len(rows) : rows[r].display = ""

\* C6: a completed toggleSection sets the display to "block" and adds "open" if
\* the display was "none"; for any other display, one never set included, it
\* sets the display to "none" and removes "open".
C6_ToggleRule ==
    Completed("toggleSection") =>
        LET before == secHist[Len(secHist)]
        IN  IF before.display = "none"
            THEN sectionDisplay = "block" /\ iconOpen
            ELSE sectionDisplay = "none" /\ ~iconOpen

C6_Witness ==
    /\ Completed("toggleSection")
    /\ Len(secHist) = 1
    /\ secHist[1].display = ""
    /\ sectionDisplay = "none"
    /\ ~iconOpen

BothCompleted == last.fault = "none" /\ last'.fault = "none"

\* C7 (as claimed): each of the four operations is idempotent: a completed
\* call repeated with the same arguments leaves the DOM as the first left it.
C7_AllIdempotent ==
    [][repeated' /\ BothCompleted => dom' = dom]_vars

\* C7 (amended): toggleSelectAll, filterTable and collectBulkIds are
\* idempotent; toggleSection is not: repeated, it reverses the section's
\* display and the icon's class.
C7_ThreeIdempotent ==
    [][repeated' /\ BothCompleted =>
          IF last'.op = "toggleSection"
          THEN /\ sectionDisplay' /= sectionDisplay
               /\ iconOpen' /= iconOpen
               /\ <<rows, filters, hidden>>' = <<rows, filters, hidden>>
          ELSE dom' = dom]_vars

C7_Witness ==
    /\ repeated
    /\ Completed("toggleSelectAll")
    /\ last.checked
    /\ Len(rows) = 2

\* C8 (as claimed): an invocation that faults leaves the DOM as it was.
C8_FaultChangesNothing ==
    [][last'.fault /= "none" => dom' = dom]_vars

\* C8 (amended): a fault on an unresolved table, section or hidden input
\* leaves the DOM as it was; toggleSection with an unresolved icon has changed
\* the section's display by then; filterTable that faults on a malformed row
\* has assigned the display of every earlier row, and of no other.
C8_FaultKeepsEarlierWrites ==
    [][last'.fault /= "none" =>
          CASE last'.fault = "icon" ->
                 /\ sectionDisplay' = (IF sectionDisplay = "none" THEN "block" ELSE "none")
                 /\ <<rows, filters, hidden, iconOpen>>' = <<rows, filters, hidden, iconOpen>>
            [] last'.fault = "cell" ->
                 /\ \E k \in 1..Len(rows) :
                      /\ Malformed(k)
                      /\ \A r \in 1..(k - 1) : ~Malformed(r)
                      /\ \A r \in 1..Len(rows) :
                           IF r < k
                           THEN rows'[r] = [rows[r] EXCEPT
                                              !.display = IF Matches(r) THEN "" ELSE "none"]
                           ELSE rows'[r] = rows[r]
                 /\ Len(rows') = Len(rows)
                 /\ <<filters, hidden, sectionDisplay, iconOpen>>'
                      = <<filters, hidden, sectionDisplay, iconOpen>>
            [] OTHER -> dom' = dom]_vars

C8_Witness ==
    /\ last.op = "filterTable"
    /\ last.fault = "cell"
    /\ Len(rows) = 2
    /\ Len(rows[2].children) = 2
    /\ rows[1].display = "none"
    /\ rows[2].display = ""

\* C9: once a toggleSection(S, I) has completed, whatever operations follow,
\* S's display is "none" or "block" and icon I has "open" if and only if the
\* display is "block".
C9_SectionIconAgree ==
    toggled =>
        /\ sectionDisplay \in {"none", "block"}
        /\ iconOpen <=> sectionDisplay = "block"

C9_Witness ==
    /\ toggled
    /\ Completed("collectBulkIds")
    /\ sectionDisplay = "block"
    /\ iconOpen
    /\ \E r \in 1..Len(rows) : rows[r].display = "none"

\* C10: after filterTable(T), toggleSelectAll(checked, T), collectBulkIds(T, H)
\* in this order, H holds the ids of all rows of T, hidden rows included.
C10_SelectAllCollectsHiddenRows ==
    seqPos = 3 => IsValuesAt(JSONParse(hidden), 1..Len(rows))

C10_Witness ==
    /\ seqPos = 3
    /\ Len(rows) = 2
    /\ rows[1].display = ""
    /\ rows[2].display = "none"

====
